---- MODULE Spec2Model ----
(***************************************************************************)
(* fbtracert (src/main.go): the probe pipeline.  One SYN sender per TTL,   *)
(* the probe-draining goroutine that counts Sent, the ICMP and TCP         *)
(* receivers, the resolver stage, the correlator loop of main() with its   *)
(* lastClosed watermark, the truncation of the counter rows and the        *)
(* classification of the source ports with isLossy.                        *)
(*                                                                         *)
(* Go slices are 0-based; the sequences of this module are 1-based, so the *)
(* cell counters.Sent[p][ttl-1] of the code is Sent[p][ttl] here, and the  *)
(* channel senderDone[ttl-1] of the code is senderDone[ttl] here.          *)
(***************************************************************************)
EXTENDS Integers, Sequences, FiniteSets, TLC

\* ------------------------------------------------------------------ bounds

\* value of the -maxTTL flag
MaxTTL == 3
\* value of the -maxSrcPorts flag
MaxSrcPorts == 1
\* numIters = maxTime * probeRate / maxSrcPorts; main() refuses numIters <= 1
NumIters == 2
\* number of packets the two receivers accept during one run
MaxPackets == 3
\* longest hit-rate vector handed to isLossy when it is checked on its own
MaxLen == 4

\* ------------------------------------------------------------- float64

(* A float64 hit rate is the quotient of two small non-negative integers.  *)
(* It is kept as <<n, d>>: d > 0 is the finite quotient n/d, <<1, 0>> is   *)
(* +Inf (x/0 with x > 0) and <<0, 0>> is NaN (0/0).  For counters this     *)
(* small the rounded quotients compare exactly as the rationals do.        *)
NaN == <<0, 0>>
PlusInf == <<1, 0>>

\* float64(rcvd) / float64(sent)
fdiv(r, s) ==
    IF s = 0 THEN (IF r = 0 THEN NaN ELSE PlusInf) ELSE <<r, s>>

isNaN(a) == a = NaN

\* the Go comparison a >= b on float64: false as soon as one side is NaN
fge(a, b) ==
    IF isNaN(a) \/ isNaN(b) THEN FALSE
    ELSE IF a = PlusInf THEN TRUE
    ELSE IF b = PlusInf THEN FALSE
    ELSE a[1] * b[2] >= b[1] * a[2]

\* the comparison a < b on float64: false as soon as one side is NaN
flt(a, b) ==
    IF isNaN(a) \/ isNaN(b) THEN FALSE
    ELSE IF a = PlusInf THEN FALSE
    ELSE IF b = PlusInf THEN TRUE
    ELSE a[1] * b[2] < b[1] * a[2]

\* ------------------------------------------------------------- isLossy

\* normalizeRcvd, the loop over i: result[i] = float64(rcvd[i]) / float64(sent[i])
normalizeRcvd(sent, rcvd) ==
    [i \in 1..Len(sent) |-> fdiv(rcvd[i], sent[i])]

\* the inner loop of isLossy from index j on: TRUE when no hitRates[j] >= hitRates[i]
\* is met, FALSE when the loop breaks with found = false
RECURSIVE innerLoop(_, _, _)
innerLoop(hitRates, i, j) ==
    IF j > Len(hitRates) THEN TRUE
    ELSE IF fge(hitRates[j], hitRates[i]) THEN FALSE
    ELSE innerLoop(hitRates, i, j + 1)

\* a plausible slip: every sample is compared with its predecessor (a monotone
\* decline) instead of with the sample [i]
RECURSIVE innerLoopNeighbour(_, _, _)
innerLoopNeighbour(hitRates, i, j) ==
    IF j > Len(hitRates) THEN TRUE
    ELSE IF fge(hitRates[j], hitRates[j - 1]) THEN FALSE
    ELSE innerLoopNeighbour(hitRates, i, j + 1)

\* the same slip, as the test of one candidate [i]
dominatesNeighbour(hitRates, i) == innerLoopNeighbour(hitRates, i, i + 1)

\* found = true; ...; for j := i + 1; j < len(hitRates); j++ {...}
dominates(hitRates, i) == innerLoop(hitRates, i, i + 1)

\* a plausible slip: the threshold of the single-hop guard off by one
segLenAlarmsOffByOne(segLen) == segLen > 3

\* "do not alarm on single-hop segment": if segLen > 2
segLenAlarms(segLen) == segLen > 2

\* the outer loop of isLossy, entered at the 1-based index i with the current
\* values of found and segLen; the code's 0-based index is i - 1
RECURSIVE outerLoop(_, _, _, _)
outerLoop(hitRates, i, found, segLen) ==
    IF i - 1 < Len(hitRates) - 1 /\ ~found
    THEN outerLoop(hitRates, i + 1, dominates(hitRates, i),
                   Len(hitRates) - (i - 1))
    ELSE [found |-> found, segLen |-> segLen]

isLossy(hitRates) ==
    LET r == outerLoop(hitRates, 1, FALSE, 0)
    IN  IF segLenAlarms(r.segLen) THEN r.found ELSE FALSE

\* ------------------------------------------------------------ pipeline

\* default of the -baseSrcPort flag
BaseSrcPort == 32768

TTLs == 1..MaxTTL
Ports == BaseSrcPort..(BaseSrcPort + MaxSrcPorts - 1)

\* for i := 0; i < maxSrcPorts*maxIters; i++
NumProbes == MaxSrcPorts * NumIters

\* the name main() writes into Paths on a TCP response (flag.Arg(0))
target == "target"

\* what the raw sockets can deliver: the port and TTL fields of a received packet
\* are whatever the packet carries, inside the sweep or not
PktPorts == Ports \cup {BaseSrcPort + MaxSrcPorts}
PktTTLs == 0..(MaxTTL + 1)
\* the routers that answer; a port flaps when a hop that had a name is seen with
\* another one, "?" of a failed lookup and the target's name included
Addrs == {"r1"}

VARIABLES
    minTTL,         \* value of the -minTTL flag
    showAll,        \* value of the -showAll flag, drawn where main() first reads it
    sender,         \* per TTL: the Sender goroutine, [pc, i]
    senderDone,     \* per TTL: how many times close(senderDone[ttl-1]) ran
    drain,          \* the probe-draining goroutine: "range", "sleep", "done"
    recvDone,       \* how many times close(recvDone) ran
    icmpRecv,       \* the forwarding goroutine of ICMPReceiver: "run", "exit"
    tcpRecv,        \* the forwarding goroutine of TCPReceiver: "run", "exit"
    unresolved,     \* records between the receivers and the resolvers
    resolved,       \* records between the resolvers and the correlator
    npackets,       \* packets accepted by the receivers so far
    Sent, Rcvd, Paths,  \* counters (the Report)
    flappedPorts,
    lastClosed,
    cpc,            \* main(): "loop", "truncate", "classify", "done", "panic"
    panicked,       \* why the process died: "no", "close nil", "close closed", "index",
                    \* "names index"
    todo,           \* ports the classification loop has not visited yet
    lossyCounters,  \* the lossy report: port -> [Sent, Rcvd, Paths]
    hitRates, lossy, lpc    \* isLossy applied on its own: input, result, position

pvars == <<minTTL, showAll, sender, senderDone, drain, recvDone, icmpRecv, tcpRecv,
           unresolved, resolved, npackets, Sent, Rcvd, Paths, flappedPorts,
           lastClosed, cpc, panicked, todo, lossyCounters>>
lvars == <<hitRates, lossy, lpc>>

\* the stamp of one probe followed from the Sender to a receiver
VARIABLES
    probe,          \* [ttl, sendClock, recvClock]: the Sender's ttl and the
                    \* millisecond clock when it is sent and when it is answered
    wire,           \* the 32-bit number on the wire: SeqNum, then AckNum
    response,       \* what the receiver made of it: [type, ttl, ts, emitted, rtt]
    spc             \* "off", "send", "sent", "acked", "parsed"

svars == <<probe, wire, response, spc>>

\* printLossyPaths called on a lossy report
VARIABLES
    allPorts,       \* the report's ports in the order the map gave them
    maxColumns,     \* value of the -maxColumns flag
    tables,         \* the tables rendered: for each, the ports of its columns
    tpc             \* "off", "call", "printed"

tvars == <<allPorts, maxColumns, tables, tpc>>

\* the correlator's loop run twice over the same responses in two orders
VARIABLES
    streamA, streamB,   \* the responses each run has still to take
    runA, runB          \* the state of each run's correlator

ovars == <<streamA, streamB, runA, runB>>
avars == <<svars, tvars, ovars>>
vars == <<pvars, lvars, avars>>

\* a panic in any goroutine ends the process
Alive == cpc # "panic"

\* senderDone[ttl-1] = make(chan struct{}) only for ttl in minTTL..maxTTL
Created(t) == t >= minTTL

\* s with cell i replaced by v
SetCell(s, i, v) == [s EXCEPT ![i] = v]

\* no probe is followed
StampOff ==
    /\ probe = <<>>
    /\ wire = <<>>
    /\ response = <<>>
    /\ spc = "off"

\* printLossyPaths is not called
TablesOff ==
    /\ allPorts = <<>>
    /\ maxColumns = 1
    /\ tables = <<>>
    /\ tpc = "off"

\* no second run is compared
OrderOff ==
    /\ streamA = <<>>
    /\ streamB = <<>>
    /\ runA = <<>>
    /\ runB = <<>>

Init ==
    /\ minTTL \in TTLs
    /\ showAll = FALSE
    /\ sender = [t \in TTLs |-> [pc |-> IF t >= minTTL THEN "loop" ELSE "none",
                                 i |-> 0]]
    /\ senderDone = [t \in TTLs |-> 0]
    /\ drain = "range"
    /\ recvDone = 0
    /\ icmpRecv = "run"
    /\ tcpRecv = "run"
    /\ unresolved = <<>>
    /\ resolved = <<>>
    /\ npackets = 0
    /\ Sent = [p \in Ports |-> [t \in TTLs |-> 0]]
    /\ Rcvd = [p \in Ports |-> [t \in TTLs |-> 0]]
    /\ Paths = [p \in Ports |-> [t \in TTLs |-> "?"]]
    /\ flappedPorts = {}
    /\ lastClosed = MaxTTL
    /\ cpc = "loop"
    /\ panicked = "no"
    /\ todo = {}
    /\ lossyCounters = <<>>
    /\ hitRates = <<>>
    /\ lossy = FALSE
    /\ lpc = "off"
    /\ StampOff
    /\ TablesOff
    /\ OrderOff

\* ------------------------------------------------------------- senders

\* srcPort := baseSrcPort + i%maxSrcPorts
srcPortOf(i) == BaseSrcPort + (i % MaxSrcPorts)

\* Sendto succeeds and the select takes "case out <- probe": the probe reaches
\* the draining goroutine through merge, which counts it.  The SYN is on the
\* wire before this step: its reply may reach a receiver at any time
SenderPublish(t) ==
    /\ Alive
    /\ sender[t].pc = "loop"
    /\ sender[t].i < NumProbes
    /\ drain = "range"
    /\ LET p == srcPortOf(sender[t].i)
       IN  Sent' = [Sent EXCEPT ![p] = SetCell(@, t, @[t] + 1)]
    /\ sender' = [sender EXCEPT ![t].i = @ + 1]
    /\ UNCHANGED <<minTTL, showAll, senderDone, drain, recvDone, icmpRecv, tcpRecv,
                   unresolved, resolved, npackets, Rcvd, Paths, flappedPorts,
                   lastClosed, cpc, panicked, todo, lossyCounters, lvars, avars>>

\* Sendto succeeds and the select takes "case <-done", ready once the channel
\* is closed
SenderStop(t) ==
    /\ Alive
    /\ sender[t].pc = "loop"
    /\ sender[t].i < NumProbes
    /\ senderDone[t] > 0
    /\ sender' = [sender EXCEPT ![t].pc = "exit"]
    /\ UNCHANGED <<minTTL, showAll, senderDone, drain, recvDone, icmpRecv, tcpRecv,
                   unresolved, resolved, npackets, Sent, Rcvd, Paths, flappedPorts,
                   lastClosed, cpc, panicked, todo, lossyCounters, lvars, avars>>

\* Sendto fails: the sender logs and breaks out of the loop
SenderSendError(t) ==
    /\ Alive
    /\ sender[t].pc = "loop"
    /\ sender[t].i < NumProbes
    /\ sender' = [sender EXCEPT ![t].pc = "exit"]
    /\ UNCHANGED <<minTTL, showAll, senderDone, drain, recvDone, icmpRecv, tcpRecv,
                   unresolved, resolved, npackets, Sent, Rcvd, Paths, flappedPorts,
                   lastClosed, cpc, panicked, todo, lossyCounters, lvars, avars>>

\* the loop condition i < maxSrcPorts*maxIters fails: "Sender done"
SenderFinish(t) ==
    /\ Alive
    /\ sender[t].pc = "loop"
    /\ sender[t].i = NumProbes
    /\ sender' = [sender EXCEPT ![t].pc = "exit"]
    /\ UNCHANGED <<minTTL, showAll, senderDone, drain, recvDone, icmpRecv, tcpRecv,
                   unresolved, resolved, npackets, Sent, Rcvd, Paths, flappedPorts,
                   lastClosed, cpc, panicked, todo, lossyCounters, lvars, avars>>

\* --------------------------------------------------- probe-draining task

\* merge(probes...) closes its output once every sender has closed its own
ProbesClosed == \A t \in TTLs : sender[t].pc # "loop"

\* a plausible slip: the loop ranges over one sender's channel instead of the
\* merged stream, and ends as soon as some sender has exited
DrainEndOnFirstExit ==
    /\ Alive
    /\ drain = "range"
    /\ \E t \in TTLs : sender[t].pc = "exit"
    /\ drain' = "sleep"
    /\ UNCHANGED <<minTTL, showAll, sender, senderDone, recvDone, icmpRecv, tcpRecv,
                   unresolved, resolved, npackets, Sent, Rcvd, Paths, flappedPorts,
                   lastClosed, cpc, panicked, todo, lossyCounters, lvars, avars>>

\* "for val := range merge(probes...)" ends: "All senders finished!"
DrainEnd ==
    /\ Alive
    /\ drain = "range"
    /\ ProbesClosed
    /\ drain' = "sleep"
    /\ UNCHANGED <<minTTL, showAll, sender, senderDone, recvDone, icmpRecv, tcpRecv,
                   unresolved, resolved, npackets, Sent, Rcvd, Paths, flappedPorts,
                   lastClosed, cpc, panicked, todo, lossyCounters, lvars, avars>>

\* time.Sleep(2 * time.Second); close(recvDone)
DrainClose ==
    /\ Alive
    /\ drain = "sleep"
    /\ recvDone' = recvDone + 1
    /\ drain' = "done"
    /\ UNCHANGED <<minTTL, showAll, sender, senderDone, icmpRecv, tcpRecv,
                   unresolved, resolved, npackets, Sent, Rcvd, Paths, flappedPorts,
                   lastClosed, cpc, panicked, todo, lossyCounters, lvars, avars>>

\* ------------------------------------------------------------ receivers

(* Each receiver is a socket-reading goroutine that filters the packets and a   *)
(* forwarding goroutine that selects between the next record and recvDone.      *)
(* The hand-over reader -> forwarder -> merge is one step here: the channels    *)
(* between them are unbuffered.  A receiver takes the next packet once the      *)
(* record before it has reached main(): one record travels at a time.           *)

\* ICMPReceiver: a TTL-exceeded message whose embedded TCP header carries the
\* source port srcPort and the sequence number ttl << 24 | ts, sent by fromAddr;
\* neither field is checked against the sweep
ICMPReceive(srcPort, ttl, fromAddr) ==
    /\ Alive
    /\ icmpRecv = "run"
    /\ unresolved = <<>> /\ resolved = <<>>
    /\ npackets < MaxPackets
    /\ unresolved' = <<[type |-> "icmp", srcPort |-> srcPort, ttl |-> ttl,
                        fromAddr |-> fromAddr, fromName |-> ""]>>
    /\ npackets' = npackets + 1
    /\ UNCHANGED <<minTTL, showAll, sender, senderDone, drain, recvDone, icmpRecv,
                   tcpRecv, resolved, Sent, Rcvd, Paths, flappedPorts,
                   lastClosed, cpc, panicked, todo, lossyCounters, lvars, avars>>

\* TCPReceiver: a RST or ACK segment from the target's port whose destination port
\* is srcPort and whose ack number - 1 is ttl << 24 | ts; "if ttl > maxTTL ||
\* ttl < 1 { continue }", the destination port is not checked
TCPReceive(srcPort, ttl) ==
    /\ Alive
    /\ tcpRecv = "run"
    /\ unresolved = <<>> /\ resolved = <<>>
    /\ npackets < MaxPackets
    /\ IF ttl > MaxTTL \/ ttl < 1
       THEN UNCHANGED <<unresolved, npackets>>
       ELSE /\ unresolved' = <<[type |-> "tcp", srcPort |-> srcPort, ttl |-> ttl]>>
            /\ npackets' = npackets + 1
    /\ UNCHANGED <<minTTL, showAll, sender, senderDone, drain, recvDone, icmpRecv,
                   tcpRecv, resolved, Sent, Rcvd, Paths, flappedPorts,
                   lastClosed, cpc, panicked, todo, lossyCounters, lvars, avars>>

\* "case <-done": the forwarding goroutine of ICMPReceiver returns and closes out
ICMPReceiverStop ==
    /\ Alive
    /\ icmpRecv = "run"
    /\ recvDone > 0
    /\ icmpRecv' = "exit"
    /\ UNCHANGED <<minTTL, showAll, sender, senderDone, drain, recvDone, tcpRecv,
                   unresolved, resolved, npackets, Sent, Rcvd, Paths, flappedPorts,
                   lastClosed, cpc, panicked, todo, lossyCounters, lvars, avars>>

\* "case <-done": the forwarding goroutine of TCPReceiver returns and closes out
TCPReceiverStop ==
    /\ Alive
    /\ tcpRecv = "run"
    /\ recvDone > 0
    /\ tcpRecv' = "exit"
    /\ UNCHANGED <<minTTL, showAll, sender, senderDone, drain, recvDone, icmpRecv,
                   unresolved, resolved, npackets, Sent, Rcvd, Paths, flappedPorts,
                   lastClosed, cpc, panicked, todo, lossyCounters, lvars, avars>>

\* merge(tcpResp, icmpResp) closes its output once both receivers closed theirs
UnresolvedClosed ==
    icmpRecv = "exit" /\ tcpRecv = "exit" /\ unresolved = <<>>

\* ------------------------------------------------------------- resolver

\* names[0] of a successful net.LookupAddr(fromAddr)
nameOf(addr) == IF addr = "r1" THEN "n1" ELSE "n2"

\* what net.LookupAddr can give back: an error, no error with an empty list
\* of names, or no error with at least one name
LookupOutcomes == {"err", "empty", "names"}

\* one resolver worker takes a record: an ICMPResponse gets "?" when the
\* lookup gave an error and names[0] otherwise, which is an index out of range
\* on an empty list; anything else passes as it is
Resolve(outcome) ==
    /\ Alive
    /\ unresolved # <<>>
    /\ resolved = <<>>
    /\ unresolved' = <<>>
    /\ LET val == unresolved[1]
       IN  IF val.type = "icmp" /\ outcome = "empty"
           THEN /\ resolved' = <<>>
                /\ cpc' = "panic"
                /\ panicked' = "names index"
           ELSE /\ resolved' =
                     IF val.type = "icmp"
                     THEN <<[val EXCEPT !.fromName =
                               IF outcome = "err" THEN "?" ELSE nameOf(val.fromAddr)]>>
                     ELSE <<val>>
                /\ UNCHANGED <<cpc, panicked>>
    /\ UNCHANGED <<minTTL, showAll, sender, senderDone, drain, recvDone, icmpRecv,
                   tcpRecv, npackets, Sent, Rcvd, Paths, flappedPorts,
                   lastClosed, todo, lossyCounters, lvars, avars>>

\* merge(resolved...) closes its output once every resolver worker returned
ResolvedClosed == UnresolvedClosed /\ resolved = <<>>

\* ----------------------------------------------------------- correlator

\* "for i := resp.ttl; i < lastClosed; i++ { close(senderDone[i]) }" from the
\* sender of TTL t on (the code's index i is t - 1), up to the sender of TTL last.
\* close of a nil channel and close of a closed channel panic
RECURSIVE closeLoop(_, _, _)
closeLoop(sd, t, last) ==
    IF t > last THEN [sd |-> sd, panic |-> "no"]
    ELSE IF ~Created(t) THEN [sd |-> sd, panic |-> "close nil"]
    ELSE IF sd[t] > 0 THEN [sd |-> [sd EXCEPT ![t] = @ + 1], panic |-> "close closed"]
    ELSE closeLoop([sd EXCEPT ![t] = @ + 1], t + 1, last)

\* a plausible slip: the loop starts at the sender of the response's own TTL
closeSendersFromOwn(sd, ttl, last) == closeLoop(sd, ttl, last)

\* the senders a TCPResponse of TTL ttl closes while the watermark is last
closeSenders(sd, ttl, last) == closeLoop(sd, ttl + 1, last)

\* a plausible slip: the watermark is never lowered
newLastClosedStuck(ttl, last) == last

\* "if resp.ttl < lastClosed { lastClosed = resp.ttl }"
newLastClosed(ttl, last) == IF ttl < last THEN ttl ELSE last

\* counters.X[srcPort][ttl-1] exists
CellExists(srcPort, ttl) == srcPort \in Ports /\ ttl \in TTLs

\* the correlator's view of its own state: what one response may change
counters == [senderDone |-> senderDone, lastClosed |-> lastClosed, Rcvd |-> Rcvd,
             Paths |-> Paths, flappedPorts |-> flappedPorts, panic |-> "no"]

\* "case ICMPResponse:" of the correlator's loop applied to the state c
onICMPResponse(c, resp) ==
    LET p == resp.srcPort
        t == resp.ttl
    IN  IF ~CellExists(p, t)
        THEN [c EXCEPT !.panic = "index"]
        ELSE [c EXCEPT
                !.Rcvd = [@ EXCEPT ![p] = SetCell(@, t, @[t] + 1)],
                !.flappedPorts =
                    IF c.Paths[p][t] # "?" /\ c.Paths[p][t] # resp.fromName
                    THEN @ \cup {p}
                    ELSE @,
                !.Paths = [@ EXCEPT ![p] = SetCell(@, t, resp.fromName)]]

\* "case TCPResponse:" of the correlator's loop applied to the state c
onTCPResponse(c, resp) ==
    LET p == resp.srcPort
        t == resp.ttl
        cl == closeSenders(c.senderDone, t, c.lastClosed)
        closed == [c EXCEPT !.senderDone = cl.sd]
        lowered == [closed EXCEPT !.lastClosed = newLastClosed(t, @)]
    IN  IF cl.panic # "no" THEN [closed EXCEPT !.panic = cl.panic]
        ELSE IF ~CellExists(p, t) THEN [lowered EXCEPT !.panic = "index"]
        ELSE [lowered EXCEPT
                !.Rcvd = [@ EXCEPT ![p] = SetCell(@, t, @[t] + 1)],
                !.Paths = [@ EXCEPT ![p] = SetCell(@, t, target)]]

\* the correlator's state becomes c; a panic ends the process
Becomes(c) ==
    /\ senderDone' = c.senderDone
    /\ lastClosed' = c.lastClosed
    /\ Rcvd' = c.Rcvd
    /\ Paths' = c.Paths
    /\ flappedPorts' = c.flappedPorts
    /\ cpc' = IF c.panic # "no" THEN "panic" ELSE cpc
    /\ panicked' = c.panic

\* main() takes an ICMPResponse from merge(resolved...)
CorrelateICMP ==
    /\ Alive
    /\ cpc = "loop"
    /\ resolved # <<>>
    /\ resolved[1].type = "icmp"
    /\ resolved' = <<>>
    /\ Becomes(onICMPResponse(counters, resolved[1]))
    /\ UNCHANGED <<minTTL, showAll, sender, drain, recvDone, icmpRecv,
                   tcpRecv, unresolved, npackets, Sent, todo,
                   lossyCounters, lvars, avars>>

\* main() takes a TCPResponse from merge(resolved...)
CorrelateTCP ==
    /\ Alive
    /\ cpc = "loop"
    /\ resolved # <<>>
    /\ resolved[1].type = "tcp"
    /\ resolved' = <<>>
    /\ Becomes(onTCPResponse(counters, resolved[1]))
    /\ UNCHANGED <<minTTL, showAll, sender, drain, recvDone, icmpRecv, tcpRecv,
                   unresolved, npackets, Sent, todo,
                   lossyCounters, lvars, avars>>

\* the 1-based index of the first hop at or after i that is the target and is
\* not the last cell ("hopVector[i] == target && i < *maxTTL-1"), 0 if none
RECURSIVE firstTarget(_, _)
firstTarget(hopVector, i) ==
    IF i > Len(hopVector) THEN 0
    ELSE IF hopVector[i] = target /\ i - 1 < MaxTTL - 1 THEN i
    ELSE firstTarget(hopVector, i + 1)

\* counters.Sent[srcPort][:i+1] for the index found, the whole row if none
truncated(row, hopVector) ==
    LET k == firstTarget(hopVector, 1)
    IN  IF k = 0 THEN row ELSE SubSeq(row, 1, k)

\* "for val := range merge(resolved...)" ends; then the rows of Sent and Rcvd are
\* cut at the target (the loop over counters.Paths; its iterations touch different
\* rows).  hopVector is a local slice header: counters.Paths keeps its rows.
\* The -showAll flag is first read by the classification that follows
CorrelateEnd ==
    /\ Alive
    /\ cpc = "loop"
    /\ ResolvedClosed
    /\ Sent' = [p \in Ports |-> truncated(Sent[p], Paths[p])]
    /\ Rcvd' = [p \in Ports |-> truncated(Rcvd[p], Paths[p])]
    /\ cpc' = "classify"
    /\ todo' = Ports
    /\ showAll' \in BOOLEAN
    /\ UNCHANGED <<minTTL, sender, senderDone, drain, recvDone, icmpRecv,
                   tcpRecv, unresolved, resolved, npackets, Paths, flappedPorts,
                   lastClosed, panicked, lossyCounters, lvars, avars>>

\* a plausible slip: the flapped ports are not skipped
skipPortNever(port) == FALSE

\* "if flappedPorts[port] { continue }"
skipPort(port) == port \in flappedPorts

\* one iteration of "for port, sentVector := range counters.Sent"
ClassifyPort(port) ==
    /\ Alive
    /\ cpc = "classify"
    /\ port \in todo
    /\ todo' = todo \ {port}
    /\ LET sentVector == Sent[port]
           rcvdVector == Rcvd[port]
           norm == normalizeRcvd(sentVector, rcvdVector)
       IN  IF skipPort(port) \/ Len(rcvdVector) # Len(sentVector)
           THEN UNCHANGED lossyCounters
           ELSE IF isLossy(norm) \/ showAll
           THEN lossyCounters' =
                  (port :> [Sent |-> sentVector, Rcvd |-> rcvdVector,
                            Paths |-> SubSeq(Paths[port], 1, Len(norm))])
                  @@ lossyCounters
           ELSE UNCHANGED lossyCounters
    /\ UNCHANGED <<minTTL, showAll, sender, senderDone, drain, recvDone, icmpRecv,
                   tcpRecv, unresolved, resolved, npackets, Sent, Rcvd, Paths,
                   flappedPorts, lastClosed, cpc, panicked, lvars, avars>>

\* the loop over counters.Sent ends: the report is printed, or "Did not find any
\* faulty paths" is logged
ClassifyEnd ==
    /\ Alive
    /\ cpc = "classify"
    /\ todo = {}
    /\ cpc' = "done"
    /\ UNCHANGED <<minTTL, showAll, sender, senderDone, drain, recvDone, icmpRecv,
                   tcpRecv, unresolved, resolved, npackets, Sent, Rcvd, Paths,
                   flappedPorts, lastClosed, panicked, todo, lossyCounters, lvars, avars>>

Next ==
    \/ \E t \in TTLs : SenderPublish(t)
    \/ \E t \in TTLs : SenderStop(t)
    \/ \E t \in TTLs : SenderSendError(t)
    \/ \E t \in TTLs : SenderFinish(t)
    \/ DrainEnd
    \/ DrainClose
    \/ \E p \in PktPorts, t \in PktTTLs, a \in Addrs : ICMPReceive(p, t, a)
    \/ \E p \in PktPorts, t \in PktTTLs : TCPReceive(p, t)
    \/ ICMPReceiverStop
    \/ TCPReceiverStop
    \/ \E outcome \in LookupOutcomes : Resolve(outcome)
    \/ CorrelateICMP
    \/ CorrelateTCP
    \/ CorrelateEnd
    \/ \E p \in Ports : ClassifyPort(p)
    \/ ClassifyEnd

Spec == Init /\ [][Next]_vars

\* the steps of the program itself; the arrival of a packet and the failure of
\* a Sendto are the environment's
SystemNext ==
    \/ \E t \in TTLs : SenderPublish(t)
    \/ \E t \in TTLs : SenderStop(t)
    \/ \E t \in TTLs : SenderFinish(t)
    \/ DrainEnd
    \/ DrainClose
    \/ ICMPReceiverStop
    \/ TCPReceiverStop
    \/ \E outcome \in LookupOutcomes : Resolve(outcome)
    \/ CorrelateICMP
    \/ CorrelateTCP
    \/ CorrelateEnd
    \/ \E p \in Ports : ClassifyPort(p)
    \/ ClassifyEnd

\* fair scheduling: a goroutine that can run eventually runs, every Sendto and
\* every lookup returns
SpecLive == Spec /\ WF_vars(SystemNext)

\* ------------------------------------------------- isLossy on its own

\* hit rates met in reports: NaN, +Inf and some tenths
FloatVals == {fdiv(r, s) : r \in {0, 1, 4, 5, 8, 9, 10}, s \in {0, 10}}

HitRateVectors == UNION {[1..n -> FloatVals] : n \in 0..MaxLen}

LossyInit ==
    /\ minTTL = 1
    /\ showAll = FALSE
    /\ sender = [t \in TTLs |-> [pc |-> "loop", i |-> 0]]
    /\ senderDone = [t \in TTLs |-> 0]
    /\ drain = "range"
    /\ recvDone = 0
    /\ icmpRecv = "run"
    /\ tcpRecv = "run"
    /\ unresolved = <<>>
    /\ resolved = <<>>
    /\ npackets = 0
    /\ Sent = [p \in Ports |-> [t \in TTLs |-> 0]]
    /\ Rcvd = [p \in Ports |-> [t \in TTLs |-> 0]]
    /\ Paths = [p \in Ports |-> [t \in TTLs |-> "?"]]
    /\ flappedPorts = {}
    /\ lastClosed = MaxTTL
    /\ cpc = "loop"
    /\ panicked = "no"
    /\ todo = {}
    /\ lossyCounters = <<>>
    /\ hitRates \in HitRateVectors
    /\ lossy = FALSE
    /\ lpc = "call"
    /\ StampOff
    /\ TablesOff
    /\ OrderOff

\* lossy = isLossy(hitRates)
CallIsLossy ==
    /\ lpc = "call"
    /\ lossy' = isLossy(hitRates)
    /\ lpc' = "returned"
    /\ UNCHANGED <<pvars, hitRates, avars>>

LossyNext == CallIsLossy

SpecLossy == LossyInit /\ [][LossyNext]_vars

\* ------------------------------------------------- the stamp on its own

\* 0x01000000: the timestamp takes the low 24 bits of the sequence number
Two24 == 16777216
\* 0x100: the TTL takes the top 8 bits
Two8 == 256

\* a uint32 is written <<top 8 bits, low 24 bits>>: x >> 24 is x[1] and
\* x & 0x00ffffff is x[2]

\* "now := uint32(time.Now().UnixNano()/(1000*1000)) & 0x00ffffff"
maskedNow(clock) == clock % Two24

\* "seqNum := ((uint32(ttl) & 0xff) << 24) | (now & 0x00ffffff)"
seqNumOf(ttl, now) == <<ttl % Two8, now % Two24>>

\* x + 1 in uint32: the acknowledgement number of a peer that got SeqNum x
plusOne(x) ==
    IF x[2] = Two24 - 1 THEN <<(x[1] + 1) % Two8, 0>> ELSE <<x[1], x[2] + 1>>

\* a plausible slip: the acknowledgement number is taken as it is
minusOneForgotten(x) == x

\* "tcpHdr.AckNum - 1" in uint32
minusOne(x) ==
    IF x[2] = 0 THEN <<(x[1] + Two8 - 1) % Two8, Two24 - 1>> ELSE <<x[1], x[2] - 1>>

\* "now - ts" in uint32, for now and ts below 2^24
rttOf(now, ts) ==
    IF now >= ts THEN <<0, now - ts>> ELSE <<Two8 - 1, Two24 + now - ts>>

\* TCPReceiver on a RST or ACK from the target carrying AckNum, read at clock
tcpResponseOf(AckNum, clock) ==
    LET ackNum == minusOne(AckNum)
        ttl == ackNum[1]
        ts == ackNum[2]
        now == maskedNow(clock)
    IN  [type |-> "tcp", ttl |-> ttl, ts |-> ts,
         emitted |-> ~(ttl > MaxTTL \/ ttl < 1) /\ ~(ts > now),
         rtt |-> rttOf(now, ts)]

\* ICMPReceiver on a TTL-exceeded message quoting SeqNum, read at clock
icmpResponseOf(SeqNum, clock) ==
    LET ttl == SeqNum[1]
        ts == SeqNum[2]
        now == maskedNow(clock)
    IN  [type |-> "icmp", ttl |-> ttl, ts |-> ts, emitted |-> TRUE,
         rtt |-> rttOf(now, ts)]

\* the TTLs a stamp can carry
StampTTLs == 1..(Two8 - 1)

\* millisecond clocks around the point where the low 24 bits roll over
Clocks == {0, 1, 2, Two24 - 2, Two24 - 1, Two24, Two24 + 2}

\* the pipeline has not moved and isLossy is not called on its own
AtRest ==
    /\ minTTL = 1
    /\ showAll = FALSE
    /\ sender = [t \in TTLs |-> [pc |-> "loop", i |-> 0]]
    /\ senderDone = [t \in TTLs |-> 0]
    /\ drain = "range"
    /\ recvDone = 0
    /\ icmpRecv = "run"
    /\ tcpRecv = "run"
    /\ unresolved = <<>>
    /\ resolved = <<>>
    /\ npackets = 0
    /\ Sent = [p \in Ports |-> [t \in TTLs |-> 0]]
    /\ Rcvd = [p \in Ports |-> [t \in TTLs |-> 0]]
    /\ Paths = [p \in Ports |-> [t \in TTLs |-> "?"]]
    /\ flappedPorts = {}
    /\ lastClosed = MaxTTL
    /\ cpc = "loop"
    /\ panicked = "no"
    /\ todo = {}
    /\ lossyCounters = <<>>
    /\ hitRates = <<>>
    /\ lossy = FALSE
    /\ lpc = "off"

\* everything but the stamp is at rest
StampInit ==
    /\ AtRest
    /\ TablesOff
    /\ OrderOff
    /\ probe \in {pr \in [ttl : StampTTLs, sendClock : Clocks, recvClock : Clocks] :
                    pr.recvClock >= pr.sendClock}
    /\ wire = <<>>
    /\ response = <<>>
    /\ spc = "send"

\* Sender builds the SYN of the probe
StampSend ==
    /\ spc = "send"
    /\ wire' = seqNumOf(probe.ttl, maskedNow(probe.sendClock))
    /\ spc' = "sent"
    /\ UNCHANGED <<pvars, lvars, tvars, ovars, probe, response>>

\* the probe reached the target, which acknowledges SeqNum + 1
TargetAcks ==
    /\ spc = "sent"
    /\ wire' = plusOne(wire)
    /\ spc' = "acked"
    /\ UNCHANGED <<pvars, lvars, tvars, ovars, probe, response>>

\* TCPReceiver reads the target's answer
StampTCPReceive ==
    /\ spc = "acked"
    /\ response' = tcpResponseOf(wire, probe.recvClock)
    /\ spc' = "parsed"
    /\ UNCHANGED <<pvars, lvars, tvars, ovars, probe, wire>>

\* the probe died on a router, ICMPReceiver reads the quoted TCP header
StampICMPReceive ==
    /\ spc = "sent"
    /\ response' = icmpResponseOf(wire, probe.recvClock)
    /\ spc' = "parsed"
    /\ UNCHANGED <<pvars, lvars, tvars, ovars, probe, wire>>

StampNext ==
    \/ StampSend
    \/ TargetAcks
    \/ StampTCPReceive
    \/ StampICMPReceive

SpecStamp == StampInit /\ [][StampNext]_vars

\* ------------------------------------------- printLossyPaths on its own

\* most ports a lossy report has here
MaxReported == 4
\* largest value of the -maxColumns flag here (its default is 4)
MaxColumns == 4

\* "allPorts[i*maxColumns : maxOffset]": the ports of the columns of table i
tableOf(ports, cols, i) ==
    LET maxOffset == IF (i + 1) * cols > Len(ports) THEN Len(ports)
                     ELSE (i + 1) * cols
    IN  SubSeq(ports, i * cols + 1, maxOffset)

\* "for i := 0; i < len(allPorts)/maxColumns; i++": the tables rendered
tablesOf(ports, cols) ==
    [k \in 1..(Len(ports) \div cols) |-> tableOf(ports, cols, k - 1)]

\* the orders in which "for srcPort := range hops" can give n ports
PortOrders(n) ==
    LET reported == {BaseSrcPort + k : k \in 0..(n - 1)}
    IN  {s \in [1..n -> reported] : \A i, j \in 1..n : s[i] = s[j] => i = j}

\* main() found a lossy report that is not empty and prints it as text
TablesInit ==
    /\ AtRest
    /\ StampOff
    /\ OrderOff
    /\ allPorts \in UNION {PortOrders(n) : n \in 1..MaxReported}
    /\ maxColumns \in 1..MaxColumns
    /\ tables = <<>>
    /\ tpc = "call"

\* printLossyPaths(lossyCounters.Sent, .Rcvd, .Paths, *maxColumns, lastClosed+1)
PrintLossyPaths ==
    /\ tpc = "call"
    /\ tables' = tablesOf(allPorts, maxColumns)
    /\ tpc' = "printed"
    /\ UNCHANGED <<pvars, lvars, svars, ovars, allPorts, maxColumns>>

TablesNext == PrintLossyPaths

SpecTables == TablesInit /\ [][TablesNext]_vars

\* ---------------------------------- the correlator's loop in two orders

\* most responses in a stream here
MaxRecords == 2

\* the records merge(resolved...) can deliver that address a cell
Responses ==
    {[type |-> "icmp", srcPort |-> p, ttl |-> t, fromAddr |-> a, fromName |-> n] :
        p \in Ports, t \in TTLs, a \in Addrs, n \in {nameOf(b) : b \in Addrs} \cup {"?"}}
    \cup {[type |-> "tcp", srcPort |-> p, ttl |-> t] : p \in Ports, t \in TTLs}

\* the orders in which the records of q can arrive
Reorderings(q) ==
    LET n == Len(q)
        shuffles == {f \in [1..n -> 1..n] : \A i, j \in 1..n : f[i] = f[j] => i = j}
    IN  {[i \in 1..n |-> q[f[i]]] : f \in shuffles}

\* "switch val.(type)" of the correlator's loop applied to the state c
onResponse(c, resp) ==
    IF resp.type = "icmp" THEN onICMPResponse(c, resp) ELSE onTCPResponse(c, resp)

\* two correlators at "lastClosed := *maxTTL" that will get the same records
OrderInit ==
    /\ AtRest
    /\ StampOff
    /\ TablesOff
    /\ streamA \in UNION {[1..n -> Responses] : n \in 1..MaxRecords}
    /\ streamB \in Reorderings(streamA)
    /\ runA = counters
    /\ runB = counters

\* the first run takes its next response
TakeA ==
    /\ streamA # <<>>
    /\ runA' = onResponse(runA, Head(streamA))
    /\ streamA' = Tail(streamA)
    /\ UNCHANGED <<pvars, lvars, svars, tvars, streamB, runB>>

\* the second run takes its next response
TakeB ==
    /\ streamA = <<>>
    /\ streamB # <<>>
    /\ runB' = onResponse(runB, Head(streamB))
    /\ streamB' = Tail(streamB)
    /\ UNCHANGED <<pvars, lvars, svars, tvars, streamA, runA>>

OrderNext ==
    \/ TakeA
    \/ TakeB

SpecOrder == OrderInit /\ [][OrderNext]_vars

\* ---------------------------------------------------------------- claims

\* the lossy predicate as the specification words it: some index i with a suffix
\* longer than 2 whose every later entry is strictly lower than h[i]
strictlyDominated(h) ==
    \E i \in 1..Len(h) :
        /\ Len(h) - (i - 1) > 2
        /\ \A j \in (i + 1)..Len(h) : flt(h[j], h[i])

\* C8: for every hit-rate vector h, isLossy(h) is true exactly when some index i
\* with Len(h) - i > 2 has h[j] < h[i] for every later j (so it is false for
\* every vector of length at most 2).
C8_IsLossyIsStrictDomination ==
    lpc = "returned" => (lossy <=> strictlyDominated(hitRates))

\* [0.8, 0.9, 0.1, 0.1]
Example0809 == <<fdiv(8, 10), fdiv(9, 10), fdiv(1, 10), fdiv(1, 10)>>

\* C9 as stated: isLossy([0.8, 0.9, 0.1, 0.1]) returns false.
C9_Example0809NotLossy ==
    (lpc = "returned" /\ hitRates = Example0809) => lossy = FALSE

\* C9 amended: isLossy([0.8, 0.9, 0.1, 0.1]) returns true (index 1 dominates the
\* two entries after it and its suffix has length 3).
C9_Example0809Lossy ==
    (lpc = "returned" /\ hitRates = Example0809) => lossy = TRUE

C9_Witness == lpc = "returned" /\ hitRates = Example0809

\* [1.0, 0.5, 0.4, 0.5]
Example1005 == <<fdiv(10, 10), fdiv(5, 10), fdiv(4, 10), fdiv(5, 10)>>

\* C10 as stated: isLossy([1.0, 0.5, 0.4, 0.5]) returns false.
C10_Example1005NotLossy ==
    (lpc = "returned" /\ hitRates = Example1005) => lossy = FALSE

\* C10 amended: isLossy([1.0, 0.5, 0.4, 0.5]) returns true (index 0 strictly
\* dominates every later entry and its suffix has length 4).
C10_Example1005Lossy ==
    (lpc = "returned" /\ hitRates = Example1005) => lossy = TRUE

C10_Witness == lpc = "returned" /\ hitRates = Example1005

\* C1: in every reachable state and in the final counters, for every source
\* port p and every TTL t, Rcvd[p][t-1] <= Sent[p][t-1].
C1_RcvdAtMostSent ==
    \A p \in Ports : \A t \in 1..Len(Sent[p]) : Rcvd[p][t] <= Sent[p][t]

\* C2: when the correlator processes a TcpResponse with TTL k, right afterwards
\* the stop signal of every sender whose TTL is in (k, maxTTL] is closed,
\* whatever was processed before.
C2_TCPClosesEverySenderAbove ==
    [][CorrelateTCP =>
         \A t \in TTLs :
            (t > resolved[1].ttl /\ sender[t].pc # "none") => senderDone'[t] > 0]_vars

\* C3: each per-TTL stop signal is closed at most once, and a TcpResponse whose
\* TTL is at or above the current lastClosed closes no stop signal.
C3_StopClosedAtMostOnce ==
    /\ [](\A t \in TTLs : senderDone[t] <= 1)
    /\ [][(CorrelateTCP /\ resolved[1].ttl >= lastClosed)
            => senderDone' = senderDone]_vars

\* three TCP responses, one per TTL, were processed: whatever their order, one
\* of them arrived at or above the watermark of its moment
C3_Witness ==
    /\ cpc = "loop"
    /\ lastClosed = 1
    /\ \A t \in 2..MaxTTL : senderDone[t] = 1
    /\ \E p \in Ports : \A t \in 1..3 : Paths[p][t] = target /\ Rcvd[p][t] = 1

\* C4: once the stop signal of the sender for TTL t is closed, that sender
\* publishes no further probe and no cell Sent[p][t-1] is incremented.
C4_StoppedSenderPublishesNothing ==
    [][\A t \in TTLs :
         senderDone[t] > 0 =>
            /\ sender'[t].i = sender[t].i
            /\ \A p \in Ports :
                 (t <= Len(Sent[p]) /\ t <= Len(Sent'[p])) => Sent'[p][t] = Sent[p][t]]_vars

\* C5: under fair scheduling every run terminates: every sender exits, the
\* receiver stop signal is closed, the receiver outputs and the merged response
\* stream close, and the correlator reaches the classification step.
C5_EveryRunTerminates ==
    <>(/\ ProbesClosed
       /\ recvDone > 0
       /\ ResolvedClosed
       /\ cpc \in {"classify", "done"})

\* C6: the receiver stop signal is closed exactly once, by the probe-draining
\* task, after its sleep, and only once the merged probe stream has closed
\* (every sender has exited); never while a sender is still running.
C6_RecvDoneClosedOnceAfterSenders ==
    /\ [](/\ recvDone <= 1
          /\ recvDone > 0 => (ProbesClosed /\ drain = "done")
          /\ cpc \in {"classify", "done"} => recvDone = 1)
    /\ [][recvDone' # recvDone =>
            (drain = "sleep" /\ drain' = "done" /\ ProbesClosed)]_vars

\* the run finished after a sender was stopped early by the correlator
C6_Witness ==
    /\ cpc = "done"
    /\ recvDone = 1
    /\ \E t \in TTLs : senderDone[t] = 1 /\ sender[t].i < NumProbes

C14_StampRoundTrip ==
    /\ spc = "sent" => wire = <<probe.ttl, probe.sendClock % Two24>>
    /\ (spc = "parsed" /\ response.type = "tcp") =>
          /\ response.ttl = probe.ttl
          /\ response.ts = probe.sendClock % Two24

\* TTL 255 stamped at 0xFFFFFF: the acknowledgement number wrapped to zero and
\* TCPReceiver still read the stamp back
C14_Witness ==
    /\ spc = "parsed"
    /\ response.type = "tcp"
    /\ probe.ttl = Two8 - 1
    /\ wire = <<0, 0>>
    /\ response.ts = Two24 - 1

\* C15: a probe stamped at 0xFFFFFE and answered when the clock reads
\* 0x01000002 gives a response record with rtt 4, and every response a
\* receiver emits has rtt = (now - stamp) modulo 2^24, below 2^24.
C15_RolloverRtt ==
    spc = "parsed" =>
        /\ (probe.sendClock = Two24 - 2 /\ probe.recvClock = Two24 + 2
               /\ probe.ttl \in TTLs) =>
              (response.emitted /\ response.rtt = <<0, 4>>)
        /\ response.emitted =>
              response.rtt =
                 <<0, (maskedNow(probe.recvClock) + Two24
                          - maskedNow(probe.sendClock)) % Two24>>

\* C16: a resolver worker emits every record it reads exactly once: an
\* ICMPResponse with the first name of the lookup, or "?" when the lookup gave
\* an error or no name; any other record as it is; no lookup outcome makes the
\* worker fail.
C16_ResolverEmitsEveryRecord ==
    [][\A outcome \in LookupOutcomes :
          Resolve(outcome) =>
              /\ cpc' # "panic"
              /\ resolved' =
                   <<IF unresolved[1].type = "icmp"
                     THEN [unresolved[1] EXCEPT !.fromName =
                             IF outcome = "names"
                             THEN nameOf(unresolved[1].fromAddr)
                             ELSE "?"]
                     ELSE unresolved[1]>>]_vars

\* C17: lastClosed starts at maxTTL, never increases, is left alone by an
\* ICMPResponse, and every TCPResponse the correlator takes lowers it to the
\* response's TTL when that is smaller, so that it is the minimum of maxTTL and
\* the TTLs of the TCPResponses taken so far.
C17_WatermarkIsSmallestTCP ==
    /\ lastClosed = MaxTTL
    /\ [][lastClosed' <= lastClosed]_vars
    /\ [][CorrelateICMP => lastClosed' = lastClosed]_vars
    /\ [][CorrelateTCP =>
            lastClosed' = IF resolved[1].ttl < lastClosed
                          THEN resolved[1].ttl
                          ELSE lastClosed]_vars

\* C18: every response the correlator applies to the counters has a source
\* port of the sweep and a TTL in 1..maxTTL, so it addresses an existing cell.
C18_ResponsesAddressCells ==
    [][(CorrelateICMP \/ CorrelateTCP) =>
            CellExists(resolved[1].srcPort, resolved[1].ttl)]_vars

\* C19 as stated: a TCPResponse of TTL k below the watermark also closes the
\* stop signal of the sender of TTL k itself.
C19_OwnSenderClosed ==
    [][(CorrelateTCP /\ resolved[1].ttl \in TTLs /\ resolved[1].ttl < lastClosed) =>
            senderDone'[resolved[1].ttl] > 0]_vars

\* C19 amended: a TCPResponse of TTL k below the watermark leaves the stop
\* signal of the sender of TTL k itself open; only senders above k are closed.
C19_OwnSenderLeftOpen ==
    [][(CorrelateTCP /\ resolved[1].ttl \in TTLs /\ resolved[1].ttl < lastClosed) =>
            /\ senderDone[resolved[1].ttl] = 0
            /\ senderDone'[resolved[1].ttl] = 0]_vars

\* the watermark was lowered to a TTL whose own sender exists and is still
\* open while the sender above it was closed
C19_Witness ==
    /\ cpc = "loop"
    /\ lastClosed < MaxTTL
    /\ Created(lastClosed)
    /\ senderDone[lastClosed] = 0
    /\ senderDone[lastClosed + 1] = 1
    /\ \E p \in Ports : Paths[p][lastClosed] = target

\* C12: after the truncation step the target's name is in a port's path row
\* at most once and only at its last position.
C12_TargetOnlyLast ==
    cpc \in {"classify", "done"} =>
        \A p \in Ports :
            \A i \in 1..Len(Paths[p]) :
                Paths[p][i] = target => i = Len(Paths[p])

\* C13: for every port the rows Sent, Rcvd and Paths of the counters have the
\* same length, after the truncation step too.
C13_CounterRowsSameLength ==
    \A p \in Ports :
        /\ Len(Sent[p]) = Len(Rcvd[p])
        /\ Len(Rcvd[p]) = Len(Paths[p])

\* C20: when the lossy report is not empty the text report renders one table
\* or more, no table has more than maxColumns port columns, and every reported
\* port is a column of exactly one table.
C20_EveryPortInOneTable ==
    tpc = "printed" =>
        /\ Len(tables) >= 1
        /\ \A k \in 1..Len(tables) : Len(tables[k]) <= maxColumns
        /\ \A i \in 1..Len(allPorts) :
              Cardinality({k \in 1..Len(tables) :
                              \E j \in 1..Len(tables[k]) :
                                  tables[k][j] = allPorts[i]}) = 1

\* every sender sent all its probes
FullySent == [p \in Ports |-> [t \in TTLs |-> NumIters]]

\* what a run leaves after truncation and classification: the received
\* counters, the paths, the flapped ports and the ports of the lossy report
outcomeOf(c) ==
    [Rcvd |-> [p \in Ports |-> truncated(c.Rcvd[p], c.Paths[p])],
     Paths |-> c.Paths,
     flappedPorts |-> c.flappedPorts,
     lossyPorts |->
        {p \in Ports :
            /\ p \notin c.flappedPorts
            /\ isLossy(normalizeRcvd(truncated(FullySent[p], c.Paths[p]),
                                     truncated(c.Rcvd[p], c.Paths[p])))}]

\* C11: two arrival orders of the same responses leave the same received
\* counters, paths, flapped ports and lossy report.
C11_OrderInsensitive ==
    (streamA = <<>> /\ streamB = <<>>) => outcomeOf(runA) = outcomeOf(runB)

\* C21: for every minTTL in 1..maxTTL and every TCPResponse the correlator
\* takes, each stop signal its close loop reaches belongs to a sender that was
\* created (TTL in minTTL..maxTTL); a stop signal never created is never closed.
C21_ClosesOnlyCreatedSenders ==
    /\ [](panicked # "close nil")
    /\ [][CorrelateTCP =>
            \A t \in (resolved[1].ttl + 1)..lastClosed : Created(t)]_vars

\* C22: at classification time every cell of the Sent row of a port that did
\* not flap is positive, so every hit rate given to isLossy is a ratio of two
\* counts with a non-zero divisor.
C22_SentPositiveAtClassification ==
    cpc \in {"classify", "done"} =>
        \A p \in Ports \ flappedPorts :
            \A i \in 1..Len(Sent[p]) :
                /\ Sent[p][i] > 0
                /\ normalizeRcvd(Sent[p], Rcvd[p])[i][2] # 0

====
